---- MODULE Spec2Model ----
(***************************************************************************)
(* Model of unit-converter/main.py: the conversion functions, the three    *)
(* category menus and the main loop; and of number-guessing-game/main.py.  *)
(*                                                                         *)
(* A text line is a tuple of one-character strings, so that float() and    *)
(* the string comparisons of the menus can be computed character by        *)
(* character.  A float is a record [k, n, d]: k = "fin" is the rational    *)
(* n/d in lowest terms (d > 0), k = "inf" is an infinity of sign n,        *)
(* k = "nan" is not-a-number.  Arithmetic on finite values is exact        *)
(* rational arithmetic; rounding of IEEE doubles, overflow to infinity and  *)
(* the sign of zero are not modelled, and a printed float is recorded as   *)
(* its value, not as its decimal rendering.                                *)
(***************************************************************************)
EXTENDS Integers, Sequences, FiniteSets, TLC

VARIABLES
    \* unit-converter, the menu controller
    pc, menu, option, num, out, calls, hist,
    \* unit-converter, the conversion functions called on their own
    e_unit, e_fns, e_val,
    \* number-guessing-game
    g_pc, number_to_guess, g_num, g_out, g_hist

converterVars == <<pc, menu, option, num, out, calls, hist>>

engineVars == <<e_unit, e_fns, e_val>>

gameVars == <<g_pc, number_to_guess, g_num, g_out, g_hist>>

vars == <<converterVars, engineVars, gameVars>>

(***************************************************************************)
(* Bounds of the model.                                                    *)
(***************************************************************************)
\* number of input lines read in a behaviour of Spec
MaxInputs == 5
\* number of input lines read in a behaviour of SpecNum
MaxNumInputs == 3
\* number of conversion calls made in a behaviour of SpecEngine
MaxCalls == 2
\* number of input lines read in a behaviour of SpecGame
MaxGuesses == 3

(***************************************************************************)
(* Floats.                                                                 *)
(***************************************************************************)
Abs(i) == IF i < 0 THEN -i ELSE i

RECURSIVE GCD(_, _)
GCD(a, b) == IF b = 0 THEN a ELSE GCD(b, a % b)

\* the rational n/d (d # 0) in lowest terms with a positive denominator
Fin(n, d) ==
    LET g == GCD(Abs(n), Abs(d))
        s == IF d < 0 THEN -1 ELSE 1
    IN  [k |-> "fin", n |-> (s * n) \div g, d |-> Abs(d) \div g]

Inf(s) == [k |-> "inf", n |-> s, d |-> 1]
NaN == [k |-> "nan", n |-> 0, d |-> 1]

IsFinite(v) == v.k = "fin"

Sign(v) == IF v.n < 0 THEN -1 ELSE IF v.n > 0 THEN 1 ELSE 0

\* a + b on floats
FAdd(a, b) ==
    IF a.k = "nan" \/ b.k = "nan" THEN NaN
    ELSE IF a.k = "inf" /\ b.k = "inf"
         THEN IF a.n = b.n THEN a ELSE NaN
    ELSE IF a.k = "inf" THEN a
    ELSE IF b.k = "inf" THEN b
    ELSE Fin(a.n * b.d + b.n * a.d, a.d * b.d)

\* a - b on floats
FSub(a, b) == FAdd(a, [b EXCEPT !.n = -b.n])

\* the product of two rationals in lowest terms; common factors are
\* cancelled before the multiplications, which keeps the integers small
FinMul(an, ad, bn, bd) ==
    LET g1 == GCD(Abs(an), Abs(bd))
        g2 == GCD(Abs(bn), Abs(ad))
    IN  Fin((an \div g1) * (bn \div g2), (ad \div g2) * (bd \div g1))

\* a * b on floats
FMul(a, b) ==
    IF a.k = "nan" \/ b.k = "nan" THEN NaN
    ELSE IF a.k = "inf" \/ b.k = "inf"
         THEN IF Sign(a) * Sign(b) = 0 THEN NaN ELSE Inf(Sign(a) * Sign(b))
    ELSE FinMul(a.n, a.d, b.n, b.d)

\* a / b on floats, for a finite non-zero divisor b (the only divisors of
\* the program are the literals 1.8, 1.60934 and 0.453592)
FDiv(a, b) ==
    IF a.k = "nan" THEN NaN
    ELSE IF a.k = "inf" THEN Inf(Sign(a) * Sign(b))
    ELSE FinMul(a.n, a.d, b.d, b.n)

(***************************************************************************)
(* The float literals of the conversion functions.                         *)
(***************************************************************************)
Lit_32 == Fin(32, 1)
Lit_1_8 == Fin(18, 10)
Lit_1_60934 == Fin(160934, 100000)
Lit_0_453592 == Fin(453592, 1000000)

(***************************************************************************)
(* Conversion functions.                                                   *)
(***************************************************************************)
\* convert_f_to_c without the parentheses: unit - 32 / 1.8
convert_f_to_c_NoParens(unit) == FSub(unit, FDiv(Lit_32, Lit_1_8))

convert_f_to_c(unit) == FDiv(FSub(unit, Lit_32), Lit_1_8)

\* convert_c_to_f without the offset of the scale
convert_c_to_f_NoOffset(unit) == FMul(unit, Lit_1_8)

convert_c_to_f(unit) == FAdd(FMul(unit, Lit_1_8), Lit_32)

\* convert_miles_to_km with the factor rounded to 1.61
convert_miles_to_km_Rounded(unit) == FMul(unit, Fin(161, 100))

convert_miles_to_km(unit) == FMul(unit, Lit_1_60934)

convert_km_to_miles(unit) == FDiv(unit, Lit_1_60934)

convert_lbs_to_kg(unit) == FMul(unit, Lit_0_453592)

convert_kg_to_lbs(unit) == FDiv(unit, Lit_0_453592)

(***************************************************************************)
(* float(text).  The texts of the model are written over Alphabet, which   *)
(* has no exponent marker and no underscore; Python strips surrounding     *)
(* whitespace, accepts one sign, then "inf", "infinity" or "nan" in any    *)
(* letter case, or digits with an optional point and fraction digits (at   *)
(* least one digit in all).  Anything else raises ValueError.              *)
(***************************************************************************)
DigitChars == <<"0", "1", "2", "3", "4", "5", "6", "7", "8", "9">>

Digits == {DigitChars[i] : i \in 1..10}

Alphabet == Digits \cup {"+", "-", ".", " ", "a", "b", "c", "f", "i", "n",
                         "q", "t", "y", "A", "F", "I", "N", "Q"}

DigitVal(c) == (CHOOSE i \in 1..10 : DigitChars[i] = c) - 1

Lower(c) ==
    CASE c = "A" -> "a" [] c = "F" -> "f" [] c = "I" -> "i"
      [] c = "N" -> "n" [] c = "Q" -> "q" [] OTHER -> c

LowerText(s) == [i \in 1..Len(s) |-> Lower(s[i])]

RECURSIVE LStrip(_)
LStrip(s) == IF s # <<>> /\ s[1] = " " THEN LStrip(Tail(s)) ELSE s

RECURSIVE RStrip(_)
RStrip(s) ==
    IF s # <<>> /\ s[Len(s)] = " " THEN RStrip(SubSeq(s, 1, Len(s) - 1))
    ELSE s

Strip(s) == RStrip(LStrip(s))

\* length of the longest prefix of s made of digits
RECURSIVE DigitPrefixLen(_)
DigitPrefixLen(s) ==
    IF s # <<>> /\ s[1] \in Digits THEN 1 + DigitPrefixLen(Tail(s)) ELSE 0

RECURSIVE DigitsToNat(_)
DigitsToNat(s) ==
    IF s = <<>> THEN 0
    ELSE 10 * DigitsToNat(SubSeq(s, 1, Len(s) - 1)) + DigitVal(s[Len(s)])

RECURSIVE Pow10(_)
Pow10(e) == IF e = 0 THEN 1 ELSE 10 * Pow10(e - 1)

ValueError == [k |-> "ValueError", n |-> 0, d |-> 1]

\* the unsigned part of a float literal
ParseUnsigned(body, sgn) ==
    LET w == LowerText(body)
    IN  IF w \in {<<"i", "n", "f">>,
                  <<"i", "n", "f", "i", "n", "i", "t", "y">>} THEN Inf(sgn)
        ELSE IF w = <<"n", "a", "n">> THEN NaN
        ELSE LET ni == DigitPrefixLen(body)
                 r1 == SubSeq(body, ni + 1, Len(body))
                 hasDot == r1 # <<>> /\ r1[1] = "."
                 r2 == IF hasDot THEN Tail(r1) ELSE r1
                 nf == IF hasDot THEN DigitPrefixLen(r2) ELSE 0
                 r3 == SubSeq(r2, nf + 1, Len(r2))
                 ds == SubSeq(body, 1, ni) \o SubSeq(r2, 1, nf)
             IN  IF ni + nf = 0 \/ r3 # <<>> THEN ValueError
                 ELSE Fin(sgn * DigitsToNat(ds), Pow10(nf))

\* float(num or 0): the empty text read as zero
ParseFloat_EmptyIsZero(text) ==
    LET s == Strip(text)
    IN  IF s = <<>> THEN Fin(0, 1)
        ELSE IF s[1] = "-" THEN ParseUnsigned(Tail(s), -1)
        ELSE IF s[1] = "+" THEN ParseUnsigned(Tail(s), 1)
        ELSE ParseUnsigned(s, 1)

\* float(text): a float, or ValueError
ParseFloat(text) ==
    LET s == Strip(text)
    IN  IF s = <<>> THEN ValueError
        ELSE IF s[1] = "-" THEN ParseUnsigned(Tail(s), -1)
        ELSE IF s[1] = "+" THEN ParseUnsigned(Tail(s), 1)
        ELSE ParseUnsigned(s, 1)

(***************************************************************************)
(* Input texts.                                                            *)
(***************************************************************************)
T_1 == <<"1">>
T_2 == <<"2">>
T_3 == <<"3">>
T_4 == <<"4">>
T_q == <<"q">>
T_Q == <<"Q">>
T_empty == <<>>
T_abc == <<"a", "b", "c">>
T_100 == <<"1", "0", "0">>
T_inf == <<"i", "n", "f">>

\* the lines a user may type in a behaviour of Spec
Texts == {T_1, T_2, T_3, T_4, T_q, T_Q, T_empty, T_abc, T_100, T_inf}

\* the lines a user may type in a behaviour of SpecNum
NumTexts ==
    Texts \cup
    { <<"n", "a", "n">>, <<"N", "a", "N">>, <<"-", "i", "n", "f">>,
      <<"I", "n", "f", "i", "n", "i", "t", "y">>,
      <<"-", "4", "0">>, <<"1", ".", "5">>, <<" ", "7", " ">>,
      <<"+", ".", "5">>, <<"1", ".">>, <<"3", "2">>, <<"0">>,
      <<".">>, <<"-">>, <<"1", " ", "2">>, <<"-", "-", "1">>,
      <<"1", ".", ".", "2">> }

\* the value of a local variable that has not been assigned
Unbound == <<"unbound">>

(***************************************************************************)
(* Output.  An entry of out is one print() call, one input() prompt or     *)
(* one logger.error() call.                                                *)
(***************************************************************************)
NoValue == [k |-> "none", n |-> 0, d |-> 1]

\* print(text)
Line(text) ==
    [ch |-> "stdout", kind |-> "line", text |-> text, value |-> NoValue,
     raw |-> <<>>]

\* the prompt written by input(text)
Prompt(text) ==
    [ch |-> "stdout", kind |-> "prompt", text |-> text, value |-> NoValue,
     raw |-> <<>>]

\* print(value) of a float
Result(value) ==
    [ch |-> "stdout", kind |-> "result", text |-> "", value |-> value,
     raw |-> <<>>]

\* logger.error(f"{num} is not a number")
LogError(raw) ==
    [ch |-> "log", kind |-> "error", text |-> " is not a number",
     value |-> NoValue, raw |-> raw]

\* a call of a conversion function
Call(fn, arg) == [fn |-> fn, arg |-> arg]

(***************************************************************************)
(* temperature_menu, distance_menu, weight_menu.  Each is modelled by      *)
(* three operators: what it prints up to its first input(), what follows   *)
(* the option read, and what follows the number read.  A next position     *)
(* "return" is the return to main.                                         *)
(***************************************************************************)
\* except ValueError: logger.error(f"{num} is not a number")
except_ValueError(numvar) ==
    IF numvar = Unbound
    THEN [pc |-> "UnboundLocalError", out |-> <<>>, calls |-> <<>>]
    ELSE [pc |-> "return", out |-> <<LogError(numvar)>>, calls |-> <<>>]

temperature_menu_open ==
    <<Line("1. C to F"), Line("2. F to C"), Line("3. Go Back"),
      Prompt("Pick a conversion\n")>>

\* temperature_menu with an else branch that reports an unknown option
temperature_menu_option_Notice(temp_option) ==
    IF temp_option = T_1 \/ temp_option = T_2
    THEN [pc |-> "NumberPrompt", out |-> <<Prompt("Insert a number:\n")>>]
    ELSE IF temp_option = T_3
    THEN [pc |-> "return", out |-> <<>>]
    ELSE [pc |-> "return", out |-> <<Line("Option not found")>>]

temperature_menu_option(temp_option) ==
    IF temp_option = T_1 \/ temp_option = T_2
    THEN [pc |-> "NumberPrompt", out |-> <<Prompt("Insert a number:\n")>>]
    ELSE [pc |-> "return", out |-> <<>>]

temperature_menu_number(temp_option, numvar) ==
    LET casted_num == ParseFloat(numvar)
    IN  IF casted_num = ValueError THEN except_ValueError(numvar)
        ELSE IF temp_option = T_1
        THEN [pc |-> "return",
              out |-> <<Result(convert_c_to_f(casted_num))>>,
              calls |-> <<Call("convert_c_to_f", casted_num)>>]
        ELSE IF temp_option = T_2
        THEN [pc |-> "return",
              out |-> <<Result(convert_f_to_c(casted_num))>>,
              calls |-> <<Call("convert_f_to_c", casted_num)>>]
        ELSE [pc |-> "return", out |-> <<>>, calls |-> <<>>]

distance_menu_open ==
    <<Line("1. Miles to KM"), Line("2. KM to Miles "), Line("3. Go Back"),
      Prompt("Pick a conversion\n")>>

\* distance_menu converting the option inside the try block, before num is
\* assigned: if float(dist_option) in (1, 2)
distance_menu_option_Converted(dist_option) ==
    IF ParseFloat(dist_option) = ValueError THEN except_ValueError(Unbound)
    ELSE IF dist_option = T_1 \/ dist_option = T_2
    THEN [pc |-> "NumberPrompt", out |-> <<Prompt("Insert a number:\n")>>]
    ELSE [pc |-> "return", out |-> <<>>]

distance_menu_option(dist_option) ==
    IF dist_option = T_1 \/ dist_option = T_2
    THEN [pc |-> "NumberPrompt", out |-> <<Prompt("Insert a number:\n")>>]
    ELSE [pc |-> "return", out |-> <<>>]

distance_menu_number(dist_option, numvar) ==
    LET casted_num == ParseFloat(numvar)
    IN  IF casted_num = ValueError THEN except_ValueError(numvar)
        ELSE IF dist_option = T_1
        THEN [pc |-> "return",
              out |-> <<Result(convert_miles_to_km(casted_num))>>,
              calls |-> <<Call("convert_miles_to_km", casted_num)>>]
        ELSE IF dist_option = T_2
        THEN [pc |-> "return",
              out |-> <<Result(convert_km_to_miles(casted_num))>>,
              calls |-> <<Call("convert_km_to_miles", casted_num)>>]
        ELSE [pc |-> "return", out |-> <<>>, calls |-> <<>>]

weight_menu_open ==
    <<Line("1. LBS TO KG"), Line("2. KG TO LBS"), Line("3. Go Back"),
      Prompt("Pick a conversion:\n")>>

\* weight_menu asking for a number unless the option is "3"
weight_menu_option_NotThree(weight_option) ==
    IF weight_option # T_3
    THEN [pc |-> "NumberPrompt", out |-> <<Prompt("Insert a number:\n")>>]
    ELSE [pc |-> "return", out |-> <<>>]

weight_menu_option(weight_option) ==
    IF weight_option = T_1 \/ weight_option = T_2
    THEN [pc |-> "NumberPrompt", out |-> <<Prompt("Insert a number:\n")>>]
    ELSE [pc |-> "return", out |-> <<>>]

\* weight_menu with the two conversions exchanged
weight_menu_number_Swapped(weight_option, numvar) ==
    LET casted_num == ParseFloat(numvar)
    IN  IF casted_num = ValueError THEN except_ValueError(numvar)
        ELSE IF weight_option = T_1
        THEN [pc |-> "return",
              out |-> <<Result(convert_kg_to_lbs(casted_num))>>,
              calls |-> <<Call("convert_kg_to_lbs", casted_num)>>]
        ELSE IF weight_option = T_2
        THEN [pc |-> "return",
              out |-> <<Result(convert_lbs_to_kg(casted_num))>>,
              calls |-> <<Call("convert_lbs_to_kg", casted_num)>>]
        ELSE [pc |-> "return", out |-> <<>>, calls |-> <<>>]

weight_menu_number(weight_option, numvar) ==
    LET casted_num == ParseFloat(numvar)
    IN  IF casted_num = ValueError THEN except_ValueError(numvar)
        ELSE IF weight_option = T_1
        THEN [pc |-> "return",
              out |-> <<Result(convert_lbs_to_kg(casted_num))>>,
              calls |-> <<Call("convert_lbs_to_kg", casted_num)>>]
        ELSE IF weight_option = T_2
        THEN [pc |-> "return",
              out |-> <<Result(convert_kg_to_lbs(casted_num))>>,
              calls |-> <<Call("convert_kg_to_lbs", casted_num)>>]
        ELSE [pc |-> "return", out |-> <<>>, calls |-> <<>>]

(***************************************************************************)
(* main.                                                                   *)
(***************************************************************************)
\* the top of the while loop: the five print() calls and the input() prompt
main_banner ==
    <<Line("Welcome to the Unit Converter"), Line("1. Temperature"),
      Line("2. Distance"), Line("3. Weight"), Line("Press 'Q' to quit"),
      Prompt("Select an option\n")>>

\* main with a break in the else branch
main_option_BreakOnUnknown(opt) ==
    IF opt = T_1
    THEN [pc |-> "CategoryMenu", menu |-> "temperature_menu",
          out |-> temperature_menu_open]
    ELSE IF opt = T_2
    THEN [pc |-> "CategoryMenu", menu |-> "distance_menu",
          out |-> distance_menu_open]
    ELSE IF opt = T_3
    THEN [pc |-> "CategoryMenu", menu |-> "weight_menu",
          out |-> weight_menu_open]
    ELSE IF opt = T_q \/ opt = T_Q
    THEN [pc |-> "Quit", menu |-> "none", out |-> <<>>]
    ELSE [pc |-> "Quit", menu |-> "none",
          out |-> <<Line("Option not found")>>]

\* main comparing the option with "q" only
main_option_LowerOnly(opt) ==
    IF opt = T_1
    THEN [pc |-> "CategoryMenu", menu |-> "temperature_menu",
          out |-> temperature_menu_open]
    ELSE IF opt = T_2
    THEN [pc |-> "CategoryMenu", menu |-> "distance_menu",
          out |-> distance_menu_open]
    ELSE IF opt = T_3
    THEN [pc |-> "CategoryMenu", menu |-> "weight_menu",
          out |-> weight_menu_open]
    ELSE IF opt = T_q
    THEN [pc |-> "Quit", menu |-> "none", out |-> <<>>]
    ELSE [pc |-> "TopMenu", menu |-> "none",
          out |-> <<Line("Option not found")>>]

\* main testing the first branch with: option in "1" (true of the empty text)
main_option_Substring(opt) ==
    IF opt = T_1 \/ opt = T_empty
    THEN [pc |-> "CategoryMenu", menu |-> "temperature_menu",
          out |-> temperature_menu_open]
    ELSE IF opt = T_2
    THEN [pc |-> "CategoryMenu", menu |-> "distance_menu",
          out |-> distance_menu_open]
    ELSE IF opt = T_3
    THEN [pc |-> "CategoryMenu", menu |-> "weight_menu",
          out |-> weight_menu_open]
    ELSE IF opt = T_q \/ opt = T_Q
    THEN [pc |-> "Quit", menu |-> "none", out |-> <<>>]
    ELSE [pc |-> "TopMenu", menu |-> "none",
          out |-> <<Line("Option not found")>>]

\* the if/elif chain on the option read at the top menu
main_option(opt) ==
    IF opt = T_1
    THEN [pc |-> "CategoryMenu", menu |-> "temperature_menu",
          out |-> temperature_menu_open]
    ELSE IF opt = T_2
    THEN [pc |-> "CategoryMenu", menu |-> "distance_menu",
          out |-> distance_menu_open]
    ELSE IF opt = T_3
    THEN [pc |-> "CategoryMenu", menu |-> "weight_menu",
          out |-> weight_menu_open]
    ELSE IF opt = T_q \/ opt = T_Q
    THEN [pc |-> "Quit", menu |-> "none", out |-> <<>>]
    ELSE [pc |-> "TopMenu", menu |-> "none",
          out |-> <<Line("Option not found")>>]

\* a menu function that loops back to its own option prompt
AfterMenu_Loop(p) == IF p = "return" THEN "CategoryMenu" ELSE p

\* the position after a step of a menu function: a return of the menu function
\* is the next iteration of the while loop of main
AfterMenu(p) == IF p = "return" THEN "TopMenu" ELSE p

\* what main prints on the way to the position p
LoopOutput(p) == IF p = "TopMenu" THEN main_banner ELSE <<>>

menu_option(m, opt) ==
    CASE m = "temperature_menu" -> temperature_menu_option(opt)
      [] m = "distance_menu" -> distance_menu_option(opt)
      [] OTHER -> weight_menu_option(opt)

menu_number(m, opt, numvar) ==
    CASE m = "temperature_menu" -> temperature_menu_number(opt, numvar)
      [] m = "distance_menu" -> distance_menu_number(opt, numvar)
      [] OTHER -> weight_menu_number(opt, numvar)

(***************************************************************************)
(* State: pc is the input() call the program waits at ("TopMenu",          *)
(* "CategoryMenu", "NumberPrompt") or "Quit" after the break; menu is the  *)
(* menu function running; option and num are its local variables; out is   *)
(* everything written so far; calls is the conversion calls made so far;   *)
(* hist is the input lines read so far.                                    *)
(***************************************************************************)
\* the conversion functions are not being called on their own
EngineIdle ==
    /\ e_unit = NoValue
    /\ e_fns = <<>>
    /\ e_val = NoValue

\* the number-guessing game is not running
GameIdle ==
    /\ g_pc = "none"
    /\ number_to_guess = 0
    /\ g_num = 0
    /\ g_out = <<>>
    /\ g_hist = <<>>

Init ==
    /\ pc = "TopMenu"
    /\ menu = "none"
    /\ option = Unbound
    /\ num = Unbound
    /\ out = main_banner
    /\ calls = <<>>
    /\ hist = <<>>
    /\ EngineIdle
    /\ GameIdle

\* option = input("Select an option\n") and the if/elif chain of main
TopMenuInput(t, cap) ==
    /\ pc = "TopMenu"
    /\ Len(hist) < cap
    /\ LET r == main_option(t)
       IN  /\ pc' = r.pc
           /\ menu' = r.menu
           /\ out' = out \o r.out \o LoopOutput(r.pc)
    /\ hist' = Append(hist, t)
    /\ UNCHANGED <<option, num, calls>>
    /\ UNCHANGED <<engineVars, gameVars>>

\* the option read of a category menu, up to its next input() or its return
CategoryMenuInput(t, cap) ==
    /\ pc = "CategoryMenu"
    /\ Len(hist) < cap
    /\ LET r == menu_option(menu, t)
           p == AfterMenu(r.pc)
       IN  /\ pc' = p
           /\ menu' = IF p = "TopMenu" THEN "none" ELSE menu
           /\ option' = IF p = "TopMenu" THEN Unbound ELSE t
           /\ out' = out \o r.out \o LoopOutput(p)
    /\ hist' = Append(hist, t)
    /\ UNCHANGED <<num, calls>>
    /\ UNCHANGED <<engineVars, gameVars>>

\* num = input("Insert a number:\n") of a category menu, up to its return
NumberInput(t, cap) ==
    /\ pc = "NumberPrompt"
    /\ Len(hist) < cap
    /\ LET r == menu_number(menu, option, t)
           p == AfterMenu(r.pc)
       IN  /\ pc' = p
           /\ menu' = IF p = "TopMenu" THEN "none" ELSE menu
           /\ option' = IF p = "TopMenu" THEN Unbound ELSE option
           /\ num' = IF p = "TopMenu" THEN Unbound ELSE t
           /\ out' = out \o r.out \o LoopOutput(p)
           /\ calls' = calls \o r.calls
    /\ hist' = Append(hist, t)
    /\ UNCHANGED <<engineVars, gameVars>>

Next ==
    \E t \in Texts :
        \/ TopMenuInput(t, MaxInputs)
        \/ CategoryMenuInput(t, MaxInputs)
        \/ NumberInput(t, MaxInputs)

Spec == Init /\ [][Next]_vars

NextNum ==
    \E t \in NumTexts :
        \/ TopMenuInput(t, MaxNumInputs)
        \/ CategoryMenuInput(t, MaxNumInputs)
        \/ NumberInput(t, MaxNumInputs)

SpecNum == Init /\ [][NextNum]_vars

TypeOK ==
    /\ pc \in {"TopMenu", "CategoryMenu", "NumberPrompt", "Quit"}
    /\ menu \in {"none", "temperature_menu", "distance_menu", "weight_menu"}
    /\ Len(hist) <= MaxInputs

(***************************************************************************)
(* The conversion functions called on their own.  e_unit is the number a   *)
(* caller starts from, e_fns the names of the functions called so far,     *)
(* each on the value returned by the one before, and e_val the value last  *)
(* returned.  A function is composed with the other function of its        *)
(* category only, which is the round trip of a value.                      *)
(***************************************************************************)
\* the menu controller is not running
ConverterIdle ==
    /\ pc = "none"
    /\ menu = "none"
    /\ option = Unbound
    /\ num = Unbound
    /\ out = <<>>
    /\ calls = <<>>
    /\ hist = <<>>

\* the finite numbers the conversion functions are called with
EngineInputs ==
    { Fin(0, 1), Fin(1, 1), Fin(-1, 1), Fin(7, 1), Fin(32, 1), Fin(-40, 1),
      Fin(100, 1), Fin(212, 1), Fin(1000, 1), Fin(1, 2), Fin(-3, 2),
      Fin(1, 3), Fin(5, 2), Fin(1, 10), Fin(75, 2), Fin(493, 5),
      Fin(-5463, 20), Fin(999, 10), Fin(-459, 1), Fin(26, 1),
      Fin(2205, 1000) }

\* the other conversion function of the category of fn
OtherDirection(fn) ==
    CASE fn = "convert_f_to_c" -> "convert_c_to_f"
      [] fn = "convert_c_to_f" -> "convert_f_to_c"
      [] fn = "convert_miles_to_km" -> "convert_km_to_miles"
      [] fn = "convert_km_to_miles" -> "convert_miles_to_km"
      [] fn = "convert_lbs_to_kg" -> "convert_kg_to_lbs"
      [] fn = "convert_kg_to_lbs" -> "convert_lbs_to_kg"

EngineInit ==
    /\ e_unit \in EngineInputs
    /\ e_fns = <<>>
    /\ e_val = e_unit
    /\ ConverterIdle
    /\ GameIdle

\* the call fn(e_val), whose value is r
EngineCall(fn, r) ==
    /\ Len(e_fns) < MaxCalls
    /\ IF e_fns = <<>> THEN TRUE
       ELSE fn = OtherDirection(e_fns[Len(e_fns)])
    /\ e_fns' = Append(e_fns, fn)
    /\ e_val' = r
    /\ UNCHANGED <<e_unit, converterVars, gameVars>>

Call_convert_f_to_c == EngineCall("convert_f_to_c", convert_f_to_c(e_val))

Call_convert_c_to_f == EngineCall("convert_c_to_f", convert_c_to_f(e_val))

Call_convert_miles_to_km ==
    EngineCall("convert_miles_to_km", convert_miles_to_km(e_val))

Call_convert_km_to_miles ==
    EngineCall("convert_km_to_miles", convert_km_to_miles(e_val))

Call_convert_lbs_to_kg ==
    EngineCall("convert_lbs_to_kg", convert_lbs_to_kg(e_val))

Call_convert_kg_to_lbs ==
    EngineCall("convert_kg_to_lbs", convert_kg_to_lbs(e_val))

EngineNext ==
    \/ Call_convert_f_to_c
    \/ Call_convert_c_to_f
    \/ Call_convert_miles_to_km
    \/ Call_convert_km_to_miles
    \/ Call_convert_lbs_to_kg
    \/ Call_convert_kg_to_lbs

SpecEngine == EngineInit /\ [][EngineNext]_vars

(***************************************************************************)
(* number-guessing-game/main.py.  g_pc is "loop" while the program waits   *)
(* at the input() call of the while loop and "done" after the loop;        *)
(* number_to_guess and g_num are the local variables number_to_guess and   *)
(* num of main; g_out is everything written so far, g_hist the input lines *)
(* read so far.                                                            *)
(***************************************************************************)
\* int(text): Python strips surrounding whitespace, accepts one sign and
\* then needs digits only, at least one; anything else raises ValueError
IntError == [ok |-> FALSE, v |-> 0]

ParseInt(text) ==
    LET s == Strip(text)
        neg == s # <<>> /\ s[1] = "-"
        body == IF s # <<>> /\ s[1] \in {"+", "-"} THEN Tail(s) ELSE s
    IN  IF body = <<>> \/ DigitPrefixLen(body) # Len(body) THEN IntError
        ELSE [ok |-> TRUE,
              v |-> IF neg THEN -DigitsToNat(body) ELSE DigitsToNat(body)]

\* the lines a user may type in a behaviour of SpecGame
GameTexts ==
    { <<DigitChars[i]>> : i \in 1..10 } \cup
    { <<"1", "0">>, <<"1", "1">>, <<"-", "2">>, <<"+", "3">>,
      <<" ", "7", " ">>, <<"1", ".", "5">>, T_abc, T_empty }

game_prompt == Prompt("Enter a number from one to 10\n")

\* the while loop written with: while num < number_to_guess
game_while_LessThan(numvar, target) == numvar < target

\* the condition of the while loop
game_while(numvar, target) == numvar # target

\* the try statement with a handler that also resets num to 0
game_try_ResetOnError(numvar, target, text) ==
    LET r == ParseInt(text)
    IN  IF ~r.ok THEN [num |-> 0, out |-> <<Line("Not a number")>>]
        ELSE IF r.v > target THEN [num |-> r.v, out |-> <<Line("Too high")>>]
        ELSE IF r.v < target THEN [num |-> r.v, out |-> <<Line("Too Low")>>]
        ELSE [num |-> r.v, out |-> <<Line("Correct")>>]

\* the try statement of the loop body on the line read: the value of num
\* after it and what it prints
game_try(numvar, target, text) ==
    LET r == ParseInt(text)
    IN  IF ~r.ok THEN [num |-> numvar, out |-> <<Line("Not a number")>>]
        ELSE IF r.v > target THEN [num |-> r.v, out |-> <<Line("Too high")>>]
        ELSE IF r.v < target THEN [num |-> r.v, out |-> <<Line("Too Low")>>]
        ELSE [num |-> r.v, out |-> <<Line("Correct")>>]

\* number_to_guess = random.randint(1, 10); num = 0; the first test of the
\* while condition and the first prompt
GameInit ==
    /\ number_to_guess \in 1..10
    /\ g_num = 0
    /\ g_pc = IF game_while(0, number_to_guess) THEN "loop" ELSE "done"
    /\ g_out = IF game_while(0, number_to_guess) THEN <<game_prompt>>
               ELSE <<>>
    /\ g_hist = <<>>
    /\ ConverterIdle
    /\ EngineIdle

\* one iteration of the while loop, from the line read to the next prompt
GuessInput(t) ==
    /\ g_pc = "loop"
    /\ Len(g_hist) < MaxGuesses
    /\ LET r == game_try(g_num, number_to_guess, t)
           again == game_while(r.num, number_to_guess)
       IN  /\ g_num' = r.num
           /\ g_pc' = IF again THEN "loop" ELSE "done"
           /\ g_out' = g_out \o r.out \o
                           (IF again THEN <<game_prompt>> ELSE <<>>)
    /\ g_hist' = Append(g_hist, t)
    /\ UNCHANGED <<number_to_guess, converterVars, engineVars>>

GameNext == \E t \in GameTexts : GuessInput(t)

SpecGame == GameInit /\ [][GameNext]_vars

(***************************************************************************)
(* Vocabulary of the properties.                                           *)
(***************************************************************************)
Last(s) == s[Len(s)]

\* the entries written by the step
NewOut == SubSeq(out', Len(out) + 1, Len(out'))

\* the conversion calls made by the step
NewCalls == SubSeq(calls', Len(calls) + 1, Len(calls'))

\* the step reads one input line at the position p
ReadsAt(p) == pc = p /\ Len(hist') = Len(hist) + 1

\* the conversion results among the entries o
Results(o) == SelectSeq(o, LAMBDA e : e.kind = "result")

\* the program waits at an input() call
Running(p) == p \in {"TopMenu", "CategoryMenu", "NumberPrompt"}

\* the option texts the top menu recognises
TopOptions == {T_1, T_2, T_3, T_q, T_Q}

\* the formula table in rational arithmetic: category code c, direction
\* code d, finite value v = v.n / v.d
FormulaTable(c, d, v) ==
    CASE c = T_1 /\ d = T_1 -> Fin(v.n * 9 + 160 * v.d, 5 * v.d)
      [] c = T_1 /\ d = T_2 -> Fin((v.n - 32 * v.d) * 5, 9 * v.d)
      [] c = T_2 /\ d = T_1 -> Fin(v.n * 160934, 100000 * v.d)
      [] c = T_2 /\ d = T_2 -> Fin(v.n * 100000, 160934 * v.d)
      [] c = T_3 /\ d = T_1 -> Fin(v.n * 453592, 1000000 * v.d)
      [] c = T_3 /\ d = T_2 -> Fin(v.n * 1000000, 453592 * v.d)

\* the name of the conversion of the formula table entry (c, d)
FormulaName(c, d) ==
    CASE c = T_1 /\ d = T_1 -> "convert_c_to_f"
      [] c = T_1 /\ d = T_2 -> "convert_f_to_c"
      [] c = T_2 /\ d = T_1 -> "convert_miles_to_km"
      [] c = T_2 /\ d = T_2 -> "convert_km_to_miles"
      [] c = T_3 /\ d = T_1 -> "convert_lbs_to_kg"
      [] c = T_3 /\ d = T_2 -> "convert_kg_to_lbs"

(***************************************************************************)
(* C1 (as stated).  After the inputs "1", "1", "100", "3", "q" the program *)
(* has printed 212.0 and is in the Quit state.                             *)
(***************************************************************************)
Scenario == <<T_1, T_1, T_100, T_3, T_q>>

C1_Original ==
    hist = Scenario =>
        /\ Results(out) = <<Result(Fin(212, 1))>>
        /\ pc = "Quit"

(***************************************************************************)
(* C1 (amended).  After the inputs "1", "1", "100", "3", "q" the program   *)
(* has printed 212.0 as its only result and has not terminated: "3" opened *)
(* the weight menu, "q" was read there as an option, and the controller is *)
(* at the top menu, its banner and prompt written, waiting for input.      *)
(***************************************************************************)
C1_Amended ==
    hist = Scenario =>
        /\ Results(out) = <<Result(Fin(212, 1))>>
        /\ calls = <<Call("convert_c_to_f", Fin(100, 1))>>
        /\ pc = "TopMenu"
        /\ menu = "none"
        /\ SubSeq(out, Len(out) - Len(main_banner) + 1, Len(out)) = main_banner
        /\ SubSeq(out, Len(out) - Len(main_banner) - Len(weight_menu_open) + 1,
                  Len(out) - Len(main_banner)) = weight_menu_open

C1_Witness ==
    /\ hist = Scenario
    /\ pc = "TopMenu"
    /\ \E i \in DOMAIN out : out[i] = Result(Fin(212, 1))

(***************************************************************************)
(* C2.  The loop stops only by a step that reads "q" or "Q" at the top     *)
(* menu: no step from a category menu or a number prompt, and no other     *)
(* step from the top menu, leaves the running positions.                   *)
(***************************************************************************)
C2_StopsOnlyOnQuit ==
    [][(Running(pc) /\ ~Running(pc')) =>
          /\ ReadsAt("TopMenu")
          /\ Last(hist') \in {T_q, T_Q}
          /\ pc' = "Quit"]_vars

C2_Witness ==
    /\ pc = "Quit"
    /\ hist = <<T_1, T_1, T_q, T_4, T_Q>>

(***************************************************************************)
(* C3.  A step that reads "q" or "Q" at the top menu ends the loop: it     *)
(* enters no menu, writes nothing and calls nothing, and no step follows   *)
(* the Quit state.                                                         *)
(***************************************************************************)
C3_QuitImmediately ==
    [][/\ (ReadsAt("TopMenu") /\ Last(hist') \in {T_q, T_Q}) =>
              /\ pc' = "Quit"
              /\ menu' = "none"
              /\ out' = out
              /\ calls' = calls
       /\ pc = "Quit" => UNCHANGED vars]_vars

C3_Witness ==
    /\ pc = "Quit"
    /\ hist = <<T_4, T_Q>>

(***************************************************************************)
(* C4.  A step that reads at the top menu a text other than "1", "2",      *)
(* "3", "q", "Q" prints "Option not found", enters no menu and is again at *)
(* the top menu, its banner and prompt written; any number of such steps   *)
(* may follow one another.                                                 *)
(***************************************************************************)
C4_OptionNotFound ==
    [][(ReadsAt("TopMenu") /\ Last(hist') \notin TopOptions) =>
          /\ pc' = "TopMenu"
          /\ menu' = "none"
          /\ out' = out \o <<Line("Option not found")>> \o main_banner
          /\ calls' = calls]_vars

C4_Witness ==
    /\ pc = "TopMenu"
    /\ hist = <<T_4, T_empty, T_4, T_abc, T_inf>>
    /\ Len(SelectSeq(out, LAMBDA e : e = Line("Option not found"))) = 5

(***************************************************************************)
(* C5.  A step that reads at the number prompt of a category menu a text   *)
(* that float() rejects ("abc" and the empty text among them) logs the     *)
(* parse error with the text read, prints no result, calls no conversion   *)
(* function and is at the top menu, the loop running.                      *)
(***************************************************************************)
C5_ParseError ==
    [][(/\ ReadsAt("NumberPrompt")
        /\ \/ Last(hist') \in {T_abc, T_empty}
           \/ ParseFloat(Last(hist')) = ValueError) =>
          /\ pc' = "TopMenu"
          /\ menu' = "none"
          /\ calls' = calls
          /\ out' = out \o <<LogError(Last(hist'))>> \o main_banner]_vars

C5_Witness ==
    /\ pc = "TopMenu"
    /\ hist = <<T_2, T_2, T_abc>>
    /\ calls = <<>>
    /\ \E i \in DOMAIN out : out[i] = LogError(T_abc)

(***************************************************************************)
(* C6.  A step that reads a finite number v at the number prompt, after    *)
(* the category code c was read at the top menu and the direction code d   *)
(* in the category menu, prints exactly one result, the formula table      *)
(* entry (c, d) applied to v, and calls exactly the conversion function of *)
(* that entry, once, with v.                                               *)
(***************************************************************************)
C6_FormulaTable ==
    [][(/\ ReadsAt("NumberPrompt")
        /\ IsFinite(ParseFloat(Last(hist')))) =>
          LET c == hist[Len(hist) - 1]
              d == hist[Len(hist)]
              v == ParseFloat(Last(hist'))
          IN  /\ c \in {T_1, T_2, T_3}
              /\ d \in {T_1, T_2}
              /\ Results(NewOut) = <<Result(FormulaTable(c, d, v))>>
              /\ NewOut = <<Result(FormulaTable(c, d, v))>> \o main_banner
              /\ NewCalls = <<Call(FormulaName(c, d), v)>>]_vars

C6_Witness ==
    /\ pc = "TopMenu"
    /\ hist = <<T_3, T_2, <<"1", ".", "5">> >>
    /\ calls = <<Call("convert_kg_to_lbs", Fin(3, 2))>>
    /\ Results(out) = <<Result(Fin(187500, 56699))>>

(***************************************************************************)
(* C7 (as stated).  Every conversion function is called with a finite      *)
(* number and every result printed comes from one: a text denoting an      *)
(* infinity or not-a-number never reaches a conversion function.           *)
(***************************************************************************)
C7_FiniteOnly ==
    /\ \A i \in DOMAIN calls : IsFinite(calls[i].arg)
    /\ \A i \in DOMAIN out : out[i].kind = "result" => IsFinite(out[i].value)

(***************************************************************************)
(* C8.  A category menu reads its option once and at most one number: the  *)
(* step after the option read is at the number prompt or at the top menu,  *)
(* the step after the number read is at the top menu, a category menu is   *)
(* entered only from the top menu and a number prompt only from the        *)
(* option read; and every step that ends at the top menu has left the menu *)
(* function and written the banner and prompt of the top menu last.        *)
(***************************************************************************)
C8_BackToTopMenu ==
    [][/\ pc = "CategoryMenu" => pc' \in {"NumberPrompt", "TopMenu"}
       /\ pc = "NumberPrompt" => pc' = "TopMenu"
       /\ pc' = "CategoryMenu" => pc = "TopMenu"
       /\ pc' = "NumberPrompt" => pc = "CategoryMenu"
       /\ pc' = "TopMenu" =>
              /\ menu' = "none"
              /\ Len(NewOut) >= Len(main_banner)
              /\ SubSeq(NewOut, Len(NewOut) - Len(main_banner) + 1,
                        Len(NewOut)) = main_banner]_vars

C8_Witness ==
    /\ pc = "TopMenu"
    /\ hist = <<T_2, T_1, T_abc, T_3, T_4>>

(***************************************************************************)
(* C9.  A step that reads in a category menu an option other than "1" and  *)
(* "2" ("3" among them) is at the top menu without a number prompt, a      *)
(* conversion call, a print or a log entry of the menu: the only entries   *)
(* written are the banner and prompt of the top menu.                      *)
(***************************************************************************)
C9_GoBackSilently ==
    [][(ReadsAt("CategoryMenu") /\ Last(hist') \notin {T_1, T_2}) =>
          /\ pc' = "TopMenu"
          /\ num' = Unbound
          /\ calls' = calls
          /\ out' = out \o main_banner]_vars

C9_Witness ==
    /\ pc = "TopMenu"
    /\ hist = <<T_1, T_3, T_3, T_abc>>

(***************************************************************************)
(* C10 (as stated).  A step that reads an unrecognised option, at the top  *)
(* menu (not "1", "2", "3", "q", "Q") or in a category menu (not "1", "2", *)
(* "3"), writes a notice and is at the top menu.                           *)
(***************************************************************************)
\* the entries of o that are not the banner and prompt of the top menu
Notices(o) == SelectSeq(o, LAMBDA e : \A i \in DOMAIN main_banner :
                                          e # main_banner[i])

C10_Original ==
    [][(\/ ReadsAt("TopMenu") /\ Last(hist') \notin TopOptions
        \/ ReadsAt("CategoryMenu") /\ Last(hist') \notin {T_1, T_2, T_3}) =>
          /\ Notices(NewOut) # <<>>
          /\ pc' = "TopMenu"]_vars

(***************************************************************************)
(* C10 (amended).  An unrecognised option read at the top menu is reported *)
(* with the notice "Option not found"; an unrecognised option read in a    *)
(* category menu is not reported at all; in both cases the step is at the  *)
(* top menu and the loop continues.                                        *)
(***************************************************************************)
C10_Amended ==
    [][/\ (ReadsAt("TopMenu") /\ Last(hist') \notin TopOptions) =>
              /\ Notices(NewOut) = <<Line("Option not found")>>
              /\ pc' = "TopMenu"
       /\ (ReadsAt("CategoryMenu") /\ Last(hist') \notin {T_1, T_2, T_3}) =>
              /\ Notices(NewOut) = <<>>
              /\ pc' = "TopMenu"]_vars

C10_Witness ==
    /\ pc = "TopMenu"
    /\ hist = <<T_4, T_1, T_4>>
    /\ Notices(out) = <<Line("Option not found")>> \o temperature_menu_open

(***************************************************************************)
(* C11.  The two conversion functions of a category are mutual inverses:   *)
(* calling one on a number and the other on the value returned gives the   *)
(* number back, in both orders and in all three categories (in rational    *)
(* arithmetic).                                                            *)
(***************************************************************************)
RoundTrips ==
    { <<"convert_c_to_f", "convert_f_to_c">>,
      <<"convert_f_to_c", "convert_c_to_f">>,
      <<"convert_miles_to_km", "convert_km_to_miles">>,
      <<"convert_km_to_miles", "convert_miles_to_km">>,
      <<"convert_lbs_to_kg", "convert_kg_to_lbs">>,
      <<"convert_kg_to_lbs", "convert_lbs_to_kg">> }

C11_RoundTrip == e_fns \in RoundTrips => e_val = e_unit

C11_Witness ==
    /\ e_unit = Fin(-3, 2)
    /\ e_fns = <<"convert_miles_to_km", "convert_km_to_miles">>
    /\ e_val = Fin(-3, 2)

(***************************************************************************)
(* C12.  convert_c_to_f returns v * 1.8 + 32 and convert_f_to_c returns    *)
(* (v - 32) / 1.8 for every number v, negative and fractional ones         *)
(* included; in particular convert_c_to_f(0) = 32, convert_f_to_c(32) = 0  *)
(* and convert_c_to_f(100) = 212.                                          *)
(***************************************************************************)
C12_Temperature ==
    /\ e_fns = <<"convert_c_to_f">> =>
           /\ e_val = Fin(9 * e_unit.n + 160 * e_unit.d, 5 * e_unit.d)
           /\ e_unit = Fin(0, 1) => e_val = Fin(32, 1)
           /\ e_unit = Fin(100, 1) => e_val = Fin(212, 1)
    /\ e_fns = <<"convert_f_to_c">> =>
           /\ e_val = Fin(5 * (e_unit.n - 32 * e_unit.d), 9 * e_unit.d)
           /\ e_unit = Fin(32, 1) => e_val = Fin(0, 1)

C12_Witness ==
    /\ e_unit = Fin(32, 1)
    /\ e_fns = <<"convert_f_to_c">>
    /\ e_val = Fin(0, 1)

(***************************************************************************)
(* C13.  The parse-error handler of a category menu runs only in the step  *)
(* that reads the number, after option "1" or "2" was read in the same     *)
(* menu invocation: the step never ends in an UnboundLocalError, and every *)
(* error it logs names the text just read, which float() rejects.          *)
(***************************************************************************)
C13_HandlerAfterRead ==
    [][/\ pc' # "UnboundLocalError"
       /\ \A i \in DOMAIN NewOut :
              NewOut[i].kind = "error" =>
                  /\ ReadsAt("NumberPrompt")
                  /\ menu \in {"temperature_menu", "distance_menu",
                               "weight_menu"}
                  /\ option \in {T_1, T_2}
                  /\ option = hist[Len(hist)]
                  /\ NewOut[i] = LogError(Last(hist'))
                  /\ ParseFloat(Last(hist')) = ValueError]_vars

C13_Witness ==
    /\ pc = "TopMenu"
    /\ hist = <<T_3, T_1, T_empty, T_2, T_abc>>
    /\ Len(SelectSeq(out, LAMBDA e : e.kind = "error")) = 1
    /\ \E i \in DOMAIN out : out[i] = LogError(T_empty)

(***************************************************************************)
(* C14.  In the number-guessing game, for every target in 1..10 and every  *)
(* sequence of inputs: a guess is asked for before anything else happens;  *)
(* the loop has ended exactly when the last input is an integer equal to   *)
(* the target, and no earlier input is; "Correct" is printed once, as the  *)
(* last output, when the loop has ended and not at all before; and every   *)
(* integer guess was answered "Too high" if greater than the target and    *)
(* "Too Low" if smaller, guesses outside 1..10 included.                   *)
(***************************************************************************)
\* the lines printed by the game, without the prompts
GameLines == SelectSeq(g_out, LAMBDA e : e.kind = "line")

\* the i-th input is an integer equal to the target
Hits(i) == ParseInt(g_hist[i]).ok /\ ParseInt(g_hist[i]).v = number_to_guess

C14_GuessingGame ==
    /\ number_to_guess \in 1..10
    /\ g_hist = <<>> => g_pc = "loop" /\ g_out = <<game_prompt>>
    /\ g_pc = "done" <=> (g_hist # <<>> /\ Hits(Len(g_hist)))
    /\ \A i \in 1..(Len(g_hist) - 1) : ~Hits(i)
    /\ g_pc = "done" => g_out[Len(g_out)] = Line("Correct")
    /\ g_pc = "loop" => g_out[Len(g_out)] = game_prompt
    /\ Len(SelectSeq(g_out, LAMBDA e : e = Line("Correct")))
           = IF g_pc = "done" THEN 1 ELSE 0
    /\ Len(GameLines) = Len(g_hist)
    /\ \A i \in DOMAIN g_hist :
           LET r == ParseInt(g_hist[i])
           IN  /\ (r.ok /\ r.v > number_to_guess) =>
                      GameLines[i] = Line("Too high")
               /\ (r.ok /\ r.v < number_to_guess) =>
                      GameLines[i] = Line("Too Low")

C14_Witness ==
    /\ number_to_guess = 7
    /\ g_hist = << <<"1", "1">>, <<"0">>, <<" ", "7", " ">> >>
    /\ g_pc = "done"
    /\ GameLines = <<Line("Too high"), Line("Too Low"), Line("Correct")>>

(***************************************************************************)
(* C15.  In the number-guessing game, a step that reads an input that is   *)
(* not an integer ("abc", "1.5" and the empty line among them) prints "Not *)
(* a number" and none of "Too high", "Too Low", "Correct", leaves the      *)
(* target and the stored guess unchanged, and asks for another guess.      *)
(***************************************************************************)
C15_NotANumber ==
    [][(/\ g_pc = "loop"
        /\ Len(g_hist') = Len(g_hist) + 1
        /\ \/ g_hist'[Len(g_hist')] \in {T_abc, T_empty, <<"1", ".", "5">>}
           \/ ~ParseInt(g_hist'[Len(g_hist')]).ok) =>
          /\ g_out' = g_out \o <<Line("Not a number"), game_prompt>>
          /\ number_to_guess' = number_to_guess
          /\ g_num' = g_num
          /\ g_pc' = "loop"]_vars

C15_Witness ==
    /\ number_to_guess = 3
    /\ g_hist = << <<"5">>, <<"1", ".", "5">> >>
    /\ g_num = 5
    /\ g_pc = "loop"
    /\ GameLines = <<Line("Too high"), Line("Not a number")>>

====
